---- MODULE Spec2Model ----
(***************************************************************************)
(* Face attendance system (src/facedetect/attendance.py).                  *)
(*                                                                         *)
(* main() loads the gallery once, creates the day's attendance file, and   *)
(* then cycles through class periods 1..6: open the camera, read and       *)
(* process frames for one minute, release the camera, sleep, advance.      *)
(* process_frame matches every detected face against the gallery and       *)
(* mark_attendance persists and forwards each first-time mark of a period. *)
(*                                                                         *)
(* Embeddings are integer vectors of Euclidean norm 5, so that cosine      *)
(* distances are exact rationals (kept as <<numerator, denominator>>).     *)
(* The wall clock is abstracted: time_str is one value, and the active     *)
(* duration is counted as the seconds elapsed since start_time.            *)
(***************************************************************************)
EXTENDS Integers, Sequences, FiniteSets, TLC

\* ---------------------------------------------------------------- bounds
\* Total number of faces the model collaborator detects in one run.
MaxDetections == 2
\* Number of failed camera opens the environment produces in one run.
MaxOpenFailures == 2

\* Number of enrollment images in the directories the matcher is checked on.
MaxGallery == 2

\* ------------------------------------------------------- program constants
\* DISTANCE_THRESHOLD = 0.4, as the rational 2/5.
DISTANCE_THRESHOLD == <<2, 5>>
\* while class_period <= 6
LastPeriod == 6
\* if time.time() - start_time > 60
ActiveSeconds == 60
\* requests.post(url, json=...) is called without a timeout argument.
PostTimeout == "None"
\* date_today, computed once at start-up.
date_today == "2024-01-01"

\* ------------------------------------------------------------ input domains
Alice == <<5, 0>>
Bob == <<0, 5>>
\* What the directory DATASET_PATH holds: whether it exists and, in listdir
\* order, its files, each with what DeepFace.represent does on it (raises,
\* or returns the list `result` of embeddings, possibly empty).
Datasets ==
    { [exists |-> FALSE, files |-> <<>>],
      [exists |-> TRUE, files |->
         << [stem |-> "notes", ext |-> ".txt", raises |-> FALSE, result |-> <<Alice>>],
            [stem |-> "carol", ext |-> ".jpg", raises |-> FALSE, result |-> <<>>],
            [stem |-> "dave", ext |-> ".png", raises |-> TRUE, result |-> <<>>] >>],
      [exists |-> TRUE, files |->
         << [stem |-> "alice", ext |-> ".jpg", raises |-> FALSE, result |-> <<Alice>>],
            [stem |-> "readme", ext |-> ".md", raises |-> FALSE, result |-> <<Bob>>],
            [stem |-> "erin", ext |-> ".jpeg", raises |-> TRUE, result |-> <<>>],
            [stem |-> "bob", ext |-> ".png", raises |-> FALSE, result |-> <<Bob, Alice>>] >>] }
\* Embeddings of the faces the model collaborator finds in frames.
Probes == { <<4, 3>>, <<3, 4>>, <<-5, 0>> }
\* Frames: the faces detected in one frame, at most two.
Frames == {<<>>} \cup { <<a>> : a \in Probes } \cup { <<a, b>> : a \in Probes, b \in Probes }
\* Seconds one iteration of the frame loop takes.
FrameSecs == { 35, 70 }

\* ------------------------------------------------------------ pure functions
Dot(a, b) == a[1] * b[1] + a[2] * b[2]

Abs(x) == IF x < 0 THEN -x ELSE x

\* np.linalg.norm, exact on the vectors used here (the root of the sum of
\* squares lies between 0 and the sum of the absolute values).
Norm(a) == CHOOSE r \in 0..(Abs(a[1]) + Abs(a[2])) : r * r = Dot(a, a)

\* 1 - np.dot(a, b) / (norm(a) * norm(b)), as <<numerator, denominator>>.
cosine_distance(a, b) ==
    LET norms == Norm(a) * Norm(b)
    IN  << norms - Dot(a, b), norms >>

\* x < y and x == y on rationals with positive denominators.
Less(x, y) == x[1] * y[2] < y[1] * x[2]
Same(x, y) == x[1] * y[2] = y[1] * x[2]

\* min(distances)
MinOf(distances) ==
    distances[CHOOSE i \in 1..Len(distances) :
                 \A j \in 1..Len(distances) : ~Less(distances[j], distances[i])]

\* Mutant: the last position holding the value is taken.
IndexOfLast(distances, d) ==
    CHOOSE i \in 1..Len(distances) :
        /\ Same(distances[i], d)
        /\ \A j \in (i + 1)..Len(distances) : ~Same(distances[j], d)

\* distances.index(min_distance): the first position holding the value.
IndexOf(distances, d) ==
    CHOOSE i \in 1..Len(distances) :
        /\ Same(distances[i], d)
        /\ \A j \in 1..(i - 1) : ~Same(distances[j], d)

\* Mutant: the nearest entry is accepted whatever its distance.
MatchNameNoThreshold(face_encoding, faces, names) ==
    CHOOSE name \in { names[i] : i \in 1..Len(names) } :
        \E distances \in { SubSeq([i \in 1..Len(faces) |->
                                      cosine_distance(face_encoding, faces[i])],
                                  1, Len(faces)) } :
        \E min_distance \in { MinOf(distances) } :
        \E best_match_index \in { IndexOf(distances, min_distance) } :
            name = names[best_match_index]

\* Lines 121-129 of process_frame: the name given to one detected face.
\* (distances, min_distance and best_match_index are bound as values, so
\* that each is computed once.)
MatchName(face_encoding, faces, names) ==
    CHOOSE name \in { names[i] : i \in 1..Len(names) } \cup { "Unknown" } :
        \E distances \in { SubSeq([i \in 1..Len(faces) |->
                                      cosine_distance(face_encoding, faces[i])],
                                  1, Len(faces)) } :
        \E min_distance \in { MinOf(distances) } :
        \E best_match_index \in { IndexOf(distances, min_distance) } :
            name = IF Less(min_distance, DISTANCE_THRESHOLD)
                   THEN names[best_match_index]
                   ELSE "Unknown"

\* filename.endswith((".jpg", ".png", ".jpeg"))
IsImage(f) == f.ext \in { ".jpg", ".png", ".jpeg" }

\* load_known_faces: <<known_faces, student_names>> of a directory.
RECURSIVE LoadFiles(_, _, _)
LoadFiles(files, faces, names) ==
    IF files = <<>> THEN << faces, names >>
    ELSE LET f == Head(files)
         IN  IF IsImage(f) /\ ~f.raises /\ f.result # <<>>
             THEN LoadFiles(Tail(files), Append(faces, f.result[1]), Append(names, f.stem))
             ELSE LoadFiles(Tail(files), faces, names)

load_known_faces(d) ==
    IF ~d.exists THEN << <<>>, <<>> >> ELSE LoadFiles(d.files, <<>>, <<>>)

\* now.strftime("%H:%M:%S"); the wall clock is abstracted to one value.
time_str == "HH:MM:SS"

\* Mutant: the row is written with the default classPeriod=1.
CsvRowDefaultPeriod(rollNumber, date, classPeriod) ==
    << rollNumber, date, time_str, "Present", "Class 1" >>

\* writer.writerow([rollNumber, date_today, time_str, "Present", f"Class {classPeriod}"])
CsvRow(rollNumber, date, classPeriod) ==
    << rollNumber, date, time_str, "Present", "Class " \o ToString(classPeriod) >>

\* The JSON body of the request to /api/attendance/mark.
PostJson(rollNumber, date, classPeriod) ==
    [ rollNumber |-> rollNumber, date |-> date, time |-> time_str,
      status |-> "present", classPeriod |-> classPeriod ]

\* Mutant: the membership test is lost.
NeverMarked(rollNumber, set) == FALSE

\* if rollNumber not in attendance_set
AlreadyMarked(rollNumber, set) == rollNumber \in set

\* Mutant: the loop stops one period early.
LoopConditionOffByOne(p) == p < LastPeriod

\* while class_period <= 6
LoopCondition(p) == p <= LastPeriod

\* class_period += 1
NextPeriod(p) == p + 1

\* time.time() - start_time > 60
Expired(seconds) == seconds > ActiveSeconds

\* The attendance file of the day before the run: absent, or left by an
\* earlier run of the same day.
HeaderRow == << "Name", "Date", "Time", "Status", "Class Period" >>
InitialFiles ==
    { [exists |-> FALSE, rows |-> <<>>],
      [exists |-> TRUE, rows |-> << HeaderRow, CsvRow("alice", date_today, 2) >>] }

\* -------------------------------------------------------------------- state
VARIABLES
    pc,              \* where main() is
    outcome,         \* "running", or how main() ended
    reported,        \* "All class periods (1-6) have been completed." was logged
    dataset,         \* the enrollment directory
    known_faces,     \* gallery embeddings
    student_names,   \* gallery identities, parallel to known_faces
    file_exists,     \* os.path.exists(attendance_file)
    file_rows,       \* rows of the attendance file
    file0,           \* rows the file held when the run began
    class_period,
    cycle_count,
    attendance_set,
    cap,             \* the cv2.VideoCapture of the current cycle
    faces,           \* faces of the current frame not yet processed
    elapsed,         \* time.time() - start_time
    posts,           \* JSON bodies of the requests sent to the backend, in order
    entered,         \* class periods whose frame loop was entered, in order
    read_failed,     \* a frame read has failed in this run
    detected         \* faces detected so far

vars == << pc, outcome, reported, dataset, known_faces, student_names, file_exists,
           file_rows, file0, class_period, cycle_count, attendance_set, cap, faces,
           elapsed, posts, entered, read_failed, detected >>

Init ==
    /\ pc = "start"
    /\ outcome = "running"
    /\ reported = FALSE
    /\ dataset \in Datasets
    /\ known_faces = <<>>
    /\ student_names = <<>>
    /\ \E f \in InitialFiles :
         /\ file_exists = f.exists
         /\ file_rows = f.rows
         /\ file0 = f.rows
    /\ class_period = 1
    /\ cycle_count = 0
    /\ attendance_set = {}
    /\ cap = "none"
    /\ faces = <<>>
    /\ elapsed = 0
    /\ posts = <<>>
    /\ entered = <<>>
    /\ read_failed = FALSE
    /\ detected = 0

\* Mutant: the file is opened for writing whether it exists or not.
initialize_attendanceTruncates(exists, rows) == << HeaderRow >>

\* initialize_attendance: the rows of the file afterwards; the header is
\* written only when the file does not exist yet.
initialize_attendance(exists, rows) == IF exists THEN rows ELSE << HeaderRow >>

\* Mutant: the attendance file is initialized before the gallery is tested.
LoadGalleryFileFirst ==
    /\ pc = "start"
    /\ LET g == load_known_faces(dataset)
       IN  /\ known_faces' = g[1]
           /\ student_names' = g[2]
           /\ IF g[1] = <<>>
              THEN /\ pc' = "stopped"
                   /\ outcome' = "NoGallery"
              ELSE /\ pc' = "loop"
                   /\ outcome' = outcome
    /\ file_exists' = TRUE
    /\ file_rows' = initialize_attendance(file_exists, file_rows)
    /\ class_period' = 1
    /\ cycle_count' = 0
    /\ UNCHANGED << reported, dataset, file0, attendance_set, cap, faces, elapsed,
                    posts, entered, read_failed, detected >>

\* main(), lines 187-200: load the gallery, give up when it is empty,
\* otherwise initialize the attendance file and the period counters.
LoadGallery ==
    /\ pc = "start"
    /\ LET g == load_known_faces(dataset)
       IN  /\ known_faces' = g[1]
           /\ student_names' = g[2]
           /\ IF g[1] = <<>>
              THEN /\ pc' = "stopped"
                   /\ outcome' = "NoGallery"
                   /\ UNCHANGED << file_exists, file_rows >>
              ELSE /\ pc' = "loop"
                   /\ outcome' = outcome
                   /\ file_exists' = TRUE
                   /\ file_rows' = initialize_attendance(file_exists, file_rows)
    /\ class_period' = 1
    /\ cycle_count' = 0
    /\ UNCHANGED << reported, dataset, file0, attendance_set, cap, faces, elapsed,
                    posts, entered, read_failed, detected >>

\* Failed camera opens so far: cycle_count counts every pass of the loop,
\* entered only the passes whose frame loop ran.
OpenFailures == cycle_count - Len(entered)

\* Mutant: the set is created once, before the loop.
KeptAttendanceSet == attendance_set

\* attendance_set = set(), at the top of every pass of the loop.
FreshAttendanceSet == {}

\* What main() leaves behind when it ends inside the outer try: the outer
\* finally logs that all class periods have been completed.
Stop(how) ==
    /\ pc' = "stopped"
    /\ outcome' = how
    /\ reported' = TRUE

\* Mutant: the capture is not released when the frame loop is left.
ReleaseSkipped ==
    /\ cap' = cap
    /\ faces' = <<>>
    /\ elapsed' = 0

\* The inner finally: cap.release(); cv2.destroyAllWindows().
Release ==
    /\ cap' = "released"
    /\ faces' = <<>>
    /\ elapsed' = 0

\* Lines 209-225, the camera opens: a new pass of the loop starts its frame loop.
OpenCamera ==
    /\ pc = "loop"
    /\ LoopCondition(class_period)
    /\ cycle_count' = cycle_count + 1
    /\ attendance_set' = FreshAttendanceSet
    /\ cap' = "open"
    /\ elapsed' = 0
    /\ entered' = Append(entered, class_period)
    /\ pc' = "read"
    /\ UNCHANGED << outcome, reported, dataset, known_faces, student_names, file_exists,
                    file_rows, file0, class_period, faces, posts, read_failed, detected >>

\* Mutant: a failed open gives the period up.
OpenFailAdvances ==
    /\ pc = "loop"
    /\ LoopCondition(class_period)
    /\ OpenFailures < MaxOpenFailures
    /\ cycle_count' = cycle_count + 1
    /\ class_period' = class_period + 1
    /\ attendance_set' = FreshAttendanceSet
    /\ cap' = "failed"
    /\ pc' = "backoff"
    /\ UNCHANGED << outcome, reported, dataset, known_faces, student_names, file_exists,
                    file_rows, file0, faces, elapsed, posts, entered, read_failed,
                    detected >>

\* Lines 209-222, the camera does not open: time.sleep(60) comes next.
OpenFail ==
    /\ pc = "loop"
    /\ LoopCondition(class_period)
    /\ OpenFailures < MaxOpenFailures
    /\ cycle_count' = cycle_count + 1
    /\ attendance_set' = FreshAttendanceSet
    /\ cap' = "failed"
    /\ pc' = "backoff"
    /\ UNCHANGED << outcome, reported, dataset, known_faces, student_names, file_exists,
                    file_rows, file0, class_period, faces, elapsed, posts, entered,
                    read_failed, detected >>

\* Lines 221-222: time.sleep(60); continue.
Backoff ==
    /\ pc = "backoff"
    /\ pc' = "loop"
    /\ UNCHANGED << outcome, reported, dataset, known_faces, student_names, file_exists,
                    file_rows, file0, class_period, cycle_count, attendance_set, cap,
                    faces, elapsed, posts, entered, read_failed, detected >>

\* Line 209 false: the loop ends, and main() with it.
LoopExit ==
    /\ pc = "loop"
    /\ ~LoopCondition(class_period)
    /\ Stop("Done")
    /\ UNCHANGED << dataset, known_faces, student_names, file_exists, file_rows, file0,
                    class_period, cycle_count, attendance_set, cap, faces, elapsed,
                    posts, entered, read_failed, detected >>

\* Where process_frame goes on: the next face, or back in main() at imshow.
AfterFace(rest) == IF rest = <<>> THEN "show" ELSE "faces"

\* Lines 229-235 and 106-119: a frame is read and DeepFace.represent
\* returns the faces in it (none: process_frame returns at once).
ReadFrame ==
    /\ pc = "read"
    /\ \E frame \in Frames :
         /\ detected + Len(frame) <= MaxDetections
         /\ faces' = frame
         /\ detected' = detected + Len(frame)
         /\ pc' = AfterFace(frame)
    /\ UNCHANGED << outcome, reported, dataset, known_faces, student_names, file_exists,
                    file_rows, file0, class_period, cycle_count, attendance_set, cap,
                    elapsed, posts, entered, read_failed >>

\* Lines 111 and 141-144: DeepFace.represent raises on the frame; the error
\* is logged and the frame is shown unmarked.
RepresentRaises ==
    /\ pc = "read"
    /\ faces' = <<>>
    /\ pc' = "show"
    /\ UNCHANGED << outcome, reported, dataset, known_faces, student_names, file_exists,
                    file_rows, file0, class_period, cycle_count, attendance_set, cap,
                    elapsed, posts, entered, read_failed, detected >>

\* Mutant: a failed read is handled like a failed open, by running the
\* same period again.
ReadFailRetries ==
    /\ pc = "read"
    /\ read_failed' = TRUE
    /\ Release
    /\ pc' = "loop"
    /\ UNCHANGED << outcome, reported, dataset, known_faces, student_names, file_exists,
                    file_rows, file0, class_period, cycle_count, attendance_set, posts,
                    entered, detected >>

\* Lines 229-232 and 247-257: cap.read() fails; break, release, then the break
\* between periods.
ReadFail ==
    /\ pc = "read"
    /\ read_failed' = TRUE
    /\ Release
    /\ pc' = "idle"
    /\ UNCHANGED << outcome, reported, dataset, known_faces, student_names, file_exists,
                    file_rows, file0, class_period, cycle_count, attendance_set, posts,
                    entered, detected >>

\* An exception in the frame loop outside process_frame's try (cv2.resize
\* and cv2.cvtColor at lines 106-107, cv2.imshow at line 237): the inner
\* finally releases, the outer except logs, main() ends.
ActiveException ==
    /\ pc \in { "read", "show" }
    /\ Release
    /\ Stop("Aborted")
    /\ UNCHANGED << dataset, known_faces, student_names, file_exists, file_rows, file0,
                    class_period, cycle_count, attendance_set, posts, entered,
                    read_failed, detected >>

\* Lines 244-249: Ctrl-C anywhere in the frame loop, a blocked remote call
\* included: return, through both finally blocks.
KeyboardInterrupt ==
    /\ pc \in { "read", "faces", "post", "hung", "show" }
    /\ Release
    /\ Stop("Cancelled")
    /\ UNCHANGED << dataset, known_faces, student_names, file_exists, file_rows, file0,
                    class_period, cycle_count, attendance_set, posts, entered,
                    read_failed, detected >>

\* The name process_frame gives the next face of the frame.
NextName == MatchName(Head(faces), known_faces, student_names)

\* Lines 126-139: the face is named "Unknown"; mark_attendance is not called.
SkipUnknown ==
    /\ pc = "faces"
    /\ faces # <<>>
    /\ NextName = "Unknown"
    /\ faces' = Tail(faces)
    /\ pc' = AfterFace(Tail(faces))
    /\ UNCHANGED << outcome, reported, dataset, known_faces, student_names, file_exists,
                    file_rows, file0, class_period, cycle_count, attendance_set, cap,
                    elapsed, posts, entered, read_failed, detected >>

\* Line 157 false: mark_attendance on an identity of attendance_set.
SkipMarked ==
    /\ pc = "faces"
    /\ faces # <<>>
    /\ NextName # "Unknown"
    /\ AlreadyMarked(NextName, attendance_set)
    /\ faces' = Tail(faces)
    /\ pc' = AfterFace(Tail(faces))
    /\ UNCHANGED << outcome, reported, dataset, known_faces, student_names, file_exists,
                    file_rows, file0, class_period, cycle_count, attendance_set, cap,
                    elapsed, posts, entered, read_failed, detected >>

\* Lines 157-175: the row is appended, the identity joins attendance_set,
\* and the request is sent to the backend.
MarkAttendance ==
    /\ pc = "faces"
    /\ faces # <<>>
    /\ NextName # "Unknown"
    /\ ~AlreadyMarked(NextName, attendance_set)
    /\ file_rows' = Append(file_rows, CsvRow(NextName, date_today, class_period))
    /\ attendance_set' = attendance_set \cup { NextName }
    /\ posts' = Append(posts, PostJson(NextName, date_today, class_period))
    /\ faces' = Tail(faces)
    /\ pc' = "post"
    /\ UNCHANGED << outcome, reported, dataset, known_faces, student_names, file_exists,
                    file0, class_period, cycle_count, cap, elapsed, entered, read_failed,
                    detected >>

\* Mutant: the identity joins the marked set before the file is opened.
AppendFailsAfterAdd ==
    /\ pc = "faces"
    /\ faces # <<>>
    /\ NextName # "Unknown"
    /\ ~AlreadyMarked(NextName, attendance_set)
    /\ attendance_set' = attendance_set \cup { NextName }
    /\ faces' = <<>>
    /\ pc' = "show"
    /\ UNCHANGED << outcome, reported, dataset, known_faces, student_names, file_exists,
                    file_rows, file0, class_period, cycle_count, cap, elapsed, posts,
                    entered, read_failed, detected >>

\* Lines 161 and 141-144: opening the file for append raises; process_frame
\* catches it, logs, and drops the rest of the frame.
AppendFails ==
    /\ pc = "faces"
    /\ faces # <<>>
    /\ NextName # "Unknown"
    /\ ~AlreadyMarked(NextName, attendance_set)
    /\ faces' = <<>>
    /\ pc' = "show"
    /\ UNCHANGED << outcome, reported, dataset, known_faces, student_names, file_exists,
                    file_rows, file0, class_period, cycle_count, attendance_set, cap,
                    elapsed, posts, entered, read_failed, detected >>

\* What mark_attendance does once requests.post has returned or raised:
\* it logs, and process_frame goes on with the next face.
AfterPost ==
    /\ pc' = AfterFace(faces)
    /\ UNCHANGED << outcome, reported, dataset, known_faces, student_names, file_exists,
                    file_rows, file0, class_period, cycle_count, attendance_set, cap,
                    faces, elapsed, posts, entered, read_failed, detected >>

\* Lines 176-177: the backend answers with status 200.
PostOk ==
    /\ pc = "post"
    /\ AfterPost

\* Mutant: a refused forward ends the handling of the frame.
PostRejectedDropsFrame ==
    /\ pc = "post"
    /\ pc' = "show"
    /\ faces' = <<>>
    /\ UNCHANGED << outcome, reported, dataset, known_faces, student_names, file_exists,
                    file_rows, file0, class_period, cycle_count, attendance_set, cap,
                    elapsed, posts, entered, read_failed, detected >>

\* Lines 178-179: the backend answers with another status.
PostRejected ==
    /\ pc = "post"
    /\ AfterPost

\* Mutant: a failed forward takes the identity out of the marked set again.
PostRaisesRollsBack ==
    /\ pc = "post"
    /\ pc' = AfterFace(faces)
    /\ attendance_set' = attendance_set \ { posts[Len(posts)].rollNumber }
    /\ UNCHANGED << outcome, reported, dataset, known_faces, student_names, file_exists,
                    file_rows, file0, class_period, cycle_count, cap, faces, elapsed,
                    posts, entered, read_failed, detected >>

\* Lines 180-181: requests.post raises (connection refused, and a timeout
\* if one is set).
PostRaises ==
    /\ pc = "post"
    /\ AfterPost

\* Line 169: the backend never answers and no timeout was given, so
\* requests.post does not return.
PostHangs ==
    /\ pc = "post"
    /\ PostTimeout = "None"
    /\ pc' = "hung"
    /\ UNCHANGED << outcome, reported, dataset, known_faces, student_names, file_exists,
                    file_rows, file0, class_period, cycle_count, attendance_set, cap,
                    faces, elapsed, posts, entered, read_failed, detected >>

\* Mutant: "q" only breaks out of the frame loop.
QuitKeyBreaks ==
    /\ pc = "show"
    /\ Release
    /\ pc' = "idle"
    /\ UNCHANGED << outcome, reported, dataset, known_faces, student_names, file_exists,
                    file_rows, file0, class_period, cycle_count, attendance_set, posts,
                    entered, read_failed, detected >>

\* Lines 239-240 and 247-249: the key read by waitKey is "q"; return.
QuitKey ==
    /\ pc = "show"
    /\ Release
    /\ Stop("Cancelled")
    /\ UNCHANGED << dataset, known_faces, student_names, file_exists, file_rows, file0,
                    class_period, cycle_count, attendance_set, posts, entered,
                    read_failed, detected >>

\* Mutant: the clock of the frame loop does not advance.
NextFrameClockStands ==
    /\ pc = "show"
    /\ \E d \in FrameSecs : ~Expired(elapsed + d)
    /\ pc' = "read"
    /\ UNCHANGED << outcome, reported, dataset, known_faces, student_names, file_exists,
                    file_rows, file0, class_period, cycle_count, attendance_set, cap,
                    faces, elapsed, posts, entered, read_failed, detected >>

\* Lines 242-243: the minute is not over; the loop reads the next frame.
NextFrame ==
    /\ pc = "show"
    /\ \E d \in FrameSecs :
         /\ ~Expired(elapsed + d)
         /\ elapsed' = elapsed + d
    /\ pc' = "read"
    /\ UNCHANGED << outcome, reported, dataset, known_faces, student_names, file_exists,
                    file_rows, file0, class_period, cycle_count, attendance_set, cap,
                    faces, posts, entered, read_failed, detected >>

\* Lines 242-243 and 247-257: the minute is over; break, release, then the
\* break between periods.
TimeUp ==
    /\ pc = "show"
    /\ \E d \in FrameSecs : Expired(elapsed + d)
    /\ Release
    /\ pc' = "idle"
    /\ UNCHANGED << outcome, reported, dataset, known_faces, student_names, file_exists,
                    file_rows, file0, class_period, cycle_count, attendance_set, posts,
                    entered, read_failed, detected >>

\* Lines 257-265: time.sleep(10); class_period += 1.
Idle ==
    /\ pc = "idle"
    /\ class_period' = NextPeriod(class_period)
    /\ pc' = "loop"
    /\ UNCHANGED << outcome, reported, dataset, known_faces, student_names, file_exists,
                    file_rows, file0, cycle_count, attendance_set, cap, faces, elapsed,
                    posts, entered, read_failed, detected >>

Next ==
    \/ LoadGallery
    \/ OpenCamera
    \/ OpenFail
    \/ Backoff
    \/ LoopExit
    \/ ReadFrame
    \/ RepresentRaises
    \/ ReadFail
    \/ ActiveException
    \/ KeyboardInterrupt
    \/ SkipUnknown
    \/ SkipMarked
    \/ MarkAttendance
    \/ AppendFails
    \/ PostOk
    \/ PostRejected
    \/ PostRaises
    \/ PostHangs
    \/ QuitKey
    \/ NextFrame
    \/ TimeUp
    \/ Idle

Spec == Init /\ [][Next]_vars

\* The steps main() takes by itself: every step but Ctrl-C, which is the
\* user's to give or not.
ProgramStep ==
    \/ LoadGallery
    \/ OpenCamera
    \/ OpenFail
    \/ Backoff
    \/ LoopExit
    \/ ReadFrame
    \/ RepresentRaises
    \/ ReadFail
    \/ ActiveException
    \/ SkipUnknown
    \/ SkipMarked
    \/ MarkAttendance
    \/ AppendFails
    \/ PostOk
    \/ PostRejected
    \/ PostRaises
    \/ PostHangs
    \/ QuitKey
    \/ NextFrame
    \/ TimeUp
    \/ Idle

\* main() is sequential code: while a statement can run, it does.
FairSpec == Spec /\ WF_vars(ProgramStep)

\* ------------------------------------------------------------------ claims
\* The identities of the gallery.
Identities == { student_names[i] : i \in 1..Len(student_names) }
Periods == 1..LastPeriod

\* A data row of (id, p), read off its Name and Class Period columns.
RowOf(row, id, p) == row[1] = id /\ row[5] = "Class " \o ToString(p)

\* Rows of (id, p) in a file content.
RowsIn(rows, id, p) == Cardinality({ i \in 1..Len(rows) : RowOf(rows[i], id, p) })

\* Rows of (id, p) this run has persisted, and requests it has sent for them.
Persisted(id, p) == RowsIn(file_rows, id, p) - RowsIn(file0, id, p)
Forwarded(id, p) ==
    Cardinality({ i \in 1..Len(posts) : posts[i].rollNumber = id /\ posts[i].classPeriod = p })

\* main() is in the frame loop of the current period.
InActive == pc \in { "read", "faces", "post", "hung", "show" }

\* process_frame is about to hand an accepted face to mark_attendance.
Calling == pc = "faces" /\ faces # <<>> /\ NextName # "Unknown"

\* A step of the program that handles the face in front (not a Ctrl-C).
HandlesFace == pc = "faces" /\ pc' \in { "faces", "show", "post" }

C1_AtMostOnce ==
    \A id \in Identities, p \in Periods : Persisted(id, p) <= 1 /\ Forwarded(id, p) <= 1

C1_NoOpWhenMarked ==
    Calling /\ NextName \in attendance_set /\ HandlesFace
        => UNCHANGED << file_rows, posts, attendance_set >>

\* C1: in every run each (identity, period) pair has at most one persisted
\* row and at most one remote forward attempt, and mark_attendance on an
\* identity already in the marked set writes no row, sends no request and
\* leaves the marked set unchanged.
C1_OncePerPeriod == []C1_AtMostOnce /\ [][C1_NoOpWhenMarked]_vars

\* The same identity is detected again (second face of the frame, or a later
\* frame) after this period's mark of it was persisted and forwarded.
C1_Witness ==
    /\ Calling
    /\ NextName \in attendance_set
    /\ Persisted(NextName, class_period) = 1
    /\ Forwarded(NextName, class_period) = 1
    /\ detected >= 2

C2_Marked ==
    /\ attendance_set' = attendance_set \cup { NextName }
    /\ Len(file_rows') = Len(file_rows) + 1
    /\ SubSeq(file_rows', 1, Len(file_rows)) = file_rows
    /\ RowOf(file_rows'[Len(file_rows')], NextName, class_period)
    /\ Len(posts') = Len(posts) + 1
    /\ SubSeq(posts', 1, Len(posts)) = posts
    /\ posts'[Len(posts')].rollNumber = NextName
    /\ posts'[Len(posts')].classPeriod = class_period

\* C2: mark_attendance called with an identity that is not in the marked
\* set (and whose append does not raise) adds the identity to the set,
\* appends exactly one row with that identity and the current period, and
\* sends exactly one request for it.
C2_FirstMark ==
    [][Calling /\ NextName \notin attendance_set /\ HandlesFace /\ ~AppendFails
          => C2_Marked]_vars

\* A first mark has just been made in a later period than the first.
C2_Witness ==
    /\ pc = "post"
    /\ class_period = 2
    /\ Persisted(posts[Len(posts)].rollNumber, 2) = 1
    /\ posts[Len(posts)].rollNumber \in attendance_set

C3_Kept ==
    /\ UNCHANGED << file_rows, attendance_set, posts >>
    /\ posts[Len(posts)].rollNumber \in attendance_set'
    /\ RowsIn(file_rows', posts[Len(posts)].rollNumber, posts[Len(posts)].classPeriod)
          = RowsIn(file0, posts[Len(posts)].rollNumber, posts[Len(posts)].classPeriod) + 1

C3_NoRetry ==
    posts' # posts =>
        /\ Len(posts') = Len(posts) + 1
        /\ \A i \in 1..Len(posts) :
              ~(/\ posts[i].rollNumber = posts'[Len(posts')].rollNumber
                /\ posts[i].classPeriod = posts'[Len(posts')].classPeriod)

\* C3: when the remote forward fails (non-200 status or exception) the row
\* stays in the file and the identity in the marked set, and no request is
\* ever sent again for a pair a request was sent for.
C3_FailureKeepsRecord ==
    [][((PostRejected \/ PostRaises) => C3_Kept) /\ C3_NoRetry]_vars

\* After a remote call has returned, the identity it was for is detected
\* again in the same period.
C3_Witness ==
    /\ Calling
    /\ Len(posts) = 1
    /\ NextName = posts[1].rollNumber
    /\ class_period = posts[1].classPeriod
    /\ elapsed > 0

C4_FreshSet ==
    /\ (pc = "read" /\ elapsed = 0) => attendance_set = {}
    /\ InActive => \A id \in attendance_set : Forwarded(id, class_period) = 1

C4_MarkedAgain ==
    /\ Calling
    /\ \E p \in 1..(class_period - 1) : Forwarded(NextName, p) = 1
    /\ Forwarded(NextName, class_period) = 0
    /\ HandlesFace
    /\ ~AppendFails
    => /\ pc' = "post"
       /\ RowsIn(file_rows', NextName, class_period)
             = RowsIn(file0, NextName, class_period) + 1

\* C4: every period's frame loop starts with an empty marked set, which
\* only ever holds identities marked in the current period; an identity
\* marked in an earlier period and accepted in a later one gets a row for
\* the later period too.
C4_PerPeriod == []C4_FreshSet /\ [][C4_MarkedAgain]_vars

\* One identity has a row of period 1 and a row of a later period.
C4_Witness ==
    \E id \in Identities, q \in 2..LastPeriod :
        /\ Persisted(id, 1) = 1
        /\ Persisted(id, q) = 1
        /\ Forwarded(id, 1) = 1
        /\ Forwarded(id, q) = 1

\* No open failure, no read failure, no exception and no cancel so far, in
\* a run with a gallery.
C5_NoFault ==
    /\ known_faces # <<>>
    /\ OpenFailures = 0
    /\ ~read_failed
    /\ outcome \notin { "Aborted", "Cancelled" }

C6_CancelStep ==
    (QuitKey \/ KeyboardInterrupt) =>
        /\ InActive
        /\ pc' = "stopped"
        /\ outcome' = "Cancelled"
        /\ cap' # "open"
        /\ UNCHANGED << class_period, cycle_count, entered >>

C6_Terminal == outcome = "Cancelled" => UNCHANGED vars

\* C6: a cancel (the "q" key or Ctrl-C) observed in the frame loop of period
\* p ends the run as Cancelled in that very step, and nothing happens after
\* it: no later period is entered, no capture is opened, no idle wait is made.
C6_CancelIsFinal == [][C6_CancelStep /\ C6_Terminal]_vars

\* The run was cancelled in the frame loop of period 3.
C6_Witness ==
    /\ outcome = "Cancelled"
    /\ pc = "stopped"
    /\ class_period = 3
    /\ entered = << 1, 2, 3 >>

C7_SamePeriod ==
    pc \in { "loop", "backoff" } =>
        /\ outcome = "running"
        /\ class_period = Len(entered) + 1

C7_FailStep ==
    (pc = "loop" /\ pc' = "backoff") =>
        UNCHANGED << class_period, entered, file_rows, posts, outcome >>

C7_WaitStep ==
    pc = "backoff" =>
        /\ pc' = "loop"
        /\ UNCHANGED << class_period, entered, file_rows, posts, outcome >>

\* C7: a failed open of period p leaves the period number, the file and the
\* run as they are, and after the wait the loop tries period p again,
\* however many opens have failed before: at the top of the loop the period
\* is always the first one whose frame loop has not run.
C7_RetrySamePeriod == []C7_SamePeriod /\ [][C7_FailStep /\ C7_WaitStep]_vars

\* Period 1 has failed to open twice and is about to be tried a third time.
C7_Witness ==
    /\ pc = "loop"
    /\ OpenFailures >= 2
    /\ class_period = 1
    /\ entered = <<>>

C8_NotReentered ==
    \A i \in 1..Len(entered), j \in 1..Len(entered) : i < j => entered[i] < entered[j]

C8_FailStep ==
    ReadFail =>
        /\ pc = "read"
        /\ pc' = "idle"
        /\ faces' = <<>>
        /\ cap' = "released"
        /\ UNCHANGED << class_period, entered, file_rows, posts, attendance_set, detected >>

C8_IdleStep ==
    pc = "idle" =>
        /\ class_period' = class_period + 1
        /\ entered' = entered
        /\ pc' = "loop"

C8_LastStep == (pc = "loop" /\ class_period > 6) => outcome' = "Done"

\* C8: a failed frame read ends the frame loop of period p at once, with no
\* further frame processed; after the release and the idle wait the period
\* is p + 1 (Done after period 6), and no period's frame loop runs twice.
C8_ReadFailureEndsPeriod ==
    []C8_NotReentered /\ [][C8_FailStep /\ C8_IdleStep /\ C8_LastStep]_vars

\* After a failed read in an earlier period, a later period's loop is running.
C8_Witness ==
    /\ read_failed
    /\ pc = "read"
    /\ class_period >= 2
    /\ entered[Len(entered)] = class_period

\* C9: a capture is held exactly while the frame loop of its period runs;
\* it has been released in the idle wait and whenever the run has ended by
\* cancel or by an exception, and none is held at the top of the loop, in
\* the wait after a failed open, or when the run is over.
C9_NoCaptureHeld ==
    /\ InActive <=> cap = "open"
    /\ pc = "idle" => cap = "released"
    /\ outcome \in { "Cancelled", "Aborted", "Done" } => cap = "released"

\* The frame loop was left by an exception.
C9_Witness == outcome = "Aborted" /\ cap = "released" /\ class_period = 2

\* C10: a remote call never blocks the frame loop for good: no state is
\* reached in which requests.post waits without bound for an answer.
C10_RemoteCallBounded == pc # "hung"


\* ------------------------------------------------ the matcher on any gallery
\* Enrollment directories of up to MaxGallery images with distinct file
\* names, every image giving one embedding.
GalleryVectors == { <<5, 0>>, <<0, 5>>, <<4, 3>>, <<-5, 0>> }
Stems == { "alice", "bob", "Unknown" }
EnrolledFiles ==
    { [stem |-> n, ext |-> ".jpg", raises |-> FALSE, result |-> << v >>] :
        n \in Stems, v \in GalleryVectors }
MatchDatasets ==
    { [exists |-> TRUE, files |-> fs] :
        fs \in { f \in UNION { [1..n -> EnrolledFiles] : n \in 1..MaxGallery } :
                   \A i \in DOMAIN f, j \in DOMAIN f : i # j => f[i].stem # f[j].stem } }

\* main() starts on one of these directories, no attendance file yet.
MatchInit ==
    /\ pc = "start"
    /\ outcome = "running"
    /\ reported = FALSE
    /\ dataset \in MatchDatasets
    /\ known_faces = <<>>
    /\ student_names = <<>>
    /\ file_exists = FALSE
    /\ file_rows = <<>>
    /\ file0 = <<>>
    /\ class_period = 1
    /\ cycle_count = 0
    /\ attendance_set = {}
    /\ cap = "none"
    /\ faces = <<>>
    /\ elapsed = 0
    /\ posts = <<>>
    /\ entered = <<>>
    /\ read_failed = FALSE
    /\ detected = 0

\* The run up to the end of its first frame, with nothing failing.
MatchNext ==
    \/ LoadGallery
    \/ OpenCamera
    \/ ReadFrame
    \/ SkipUnknown
    \/ SkipMarked
    \/ MarkAttendance
    \/ PostOk

MatchSpec == MatchInit /\ [][MatchNext]_vars

\* The distance of the face in front to gallery entry j.
FaceDistance(j) == cosine_distance(Head(faces), known_faces[j])

\* Gallery entry i is the first one of minimum distance to the face in front.
FirstNearest(i) ==
    /\ \A j \in 1..Len(known_faces) :
          FaceDistance(j)[1] * FaceDistance(i)[2] >= FaceDistance(i)[1] * FaceDistance(j)[2]
    /\ \A j \in 1..(i - 1) :
          FaceDistance(j)[1] * FaceDistance(i)[2] > FaceDistance(i)[1] * FaceDistance(j)[2]

\* The distance to entry i is below 0.4.
BelowThreshold(i) == 5 * FaceDistance(i)[1] < 2 * FaceDistance(i)[2]

\* C11: for every probe and every non-empty gallery the matcher names the
\* face after the first gallery entry of minimum distance if that distance
\* is strictly below the threshold, and "Unknown" if it is greater or equal.
C11_MatcherPicksNearest ==
    (pc = "faces" /\ faces # <<>>) =>
        \E i \in 1..Len(known_faces) :
            /\ FirstNearest(i)
            /\ NextName = IF BelowThreshold(i) THEN student_names[i] ELSE "Unknown"

\* Two entries tie at the minimum, below the threshold, and the face is
\* named after the first.
C11_Witness ==
    /\ pc = "faces"
    /\ faces # <<>>
    /\ Len(known_faces) = 2
    /\ known_faces[1] = known_faces[2]
    /\ BelowThreshold(1)
    /\ NextName = student_names[1]
    /\ student_names[1] # "Unknown"


\* The directory is missing or none of its files is an image that gives an
\* embedding.
NoUsableImage ==
    \/ ~dataset.exists
    \/ \A i \in 1..Len(dataset.files) :
          \/ dataset.files[i].ext \notin { ".jpg", ".png", ".jpeg" }
          \/ dataset.files[i].raises
          \/ dataset.files[i].result = <<>>

\* C12: when the gallery loader returns an empty gallery the run ends before
\* the loop: no period is entered, no capture is opened, the attendance file
\* is neither created nor written and nothing is forwarded.
C12_EmptyGalleryAborts ==
    (pc # "start" /\ NoUsableImage) =>
        /\ pc = "stopped"
        /\ outcome = "NoGallery"
        /\ known_faces = <<>>
        /\ entered = <<>>
        /\ cycle_count = 0
        /\ cap = "none"
        /\ file_exists = (file0 # <<>>)
        /\ file_rows = file0
        /\ posts = <<>>

\* The directory exists, every extraction failed, and the run is over with
\* no attendance file.
C12_Witness ==
    /\ pc = "stopped"
    /\ outcome = "NoGallery"
    /\ dataset.exists
    /\ ~file_exists


\* The face in front is accepted as gallery entry i in the frame loop.
AcceptedAs(i) ==
    /\ InActive
    /\ pc = "faces"
    /\ faces # <<>>
    /\ FirstNearest(i)
    /\ BelowThreshold(i)

C13_RowStep ==
    (pc # "start" /\ file_rows' # file_rows) =>
        \E i \in 1..Len(known_faces) :
            /\ AcceptedAs(i)
            /\ Len(file_rows') = Len(file_rows) + 1
            /\ SubSeq(file_rows', 1, Len(file_rows)) = file_rows
            /\ RowOf(file_rows'[Len(file_rows')], student_names[i], class_period)

C13_PostStep ==
    posts' # posts =>
        \E i \in 1..Len(known_faces) :
            /\ AcceptedAs(i)
            /\ Len(posts') = Len(posts) + 1
            /\ SubSeq(posts', 1, Len(posts)) = posts
            /\ posts'[Len(posts')].rollNumber = student_names[i]
            /\ posts'[Len(posts')].classPeriod = class_period

\* C13: a row is persisted and a request is sent for (identity, period)
\* only in a step of that period's frame loop that handles a detected face
\* whose first nearest gallery entry is that identity, at a distance below
\* the threshold; an identity no face matched in a period gets no record
\* for it.
C13_OnlyMatchedAreRecorded == [][C13_RowStep /\ C13_PostStep]_vars

\* Period 1 is over: two faces were seen, "bob" was recorded and "alice",
\* whom no face matched, was not.
C13_Witness ==
    /\ pc = "idle"
    /\ class_period = 1
    /\ detected >= 2
    /\ Persisted("bob", 1) = 1
    /\ Forwarded("bob", 1) = 1
    /\ Persisted("alice", 1) = 0
    /\ Forwarded("alice", 1) = 0


C14_Step ==
    /\ file_exists => file_exists'
    /\ Len(file_rows') >= Len(file_rows)
    /\ SubSeq(file_rows', 1, Len(file_rows)) = file_rows
    /\ \A k \in (Len(file_rows) + 1)..Len(file_rows') :
           file_rows'[k] = HeaderRow <=> (~file_exists /\ k = 1)

\* C14: the attendance file is append-only: every step leaves the rows
\* already in the file in place, unchanged and in order, and the header row
\* is written only by the step that creates the file.
C14_AppendOnly == [][C14_Step]_vars

\* The file existed with a row before the run; the run initialised it
\* again, changed period and marked attendance in the later period.
C14_Witness ==
    /\ Len(file0) = 2
    /\ class_period >= 2
    /\ Len(file_rows) > Len(file0)
    /\ \E id \in Identities : RowOf(file_rows[Len(file_rows)], id, class_period)


\* Every call of the frame loop returns: the remote call does not block for
\* ever and no call raises out of the loop.
C15_CallsReturn == [](pc # "hung") /\ [](outcome # "Aborted")

C16_Step ==
    (PostRejected \/ PostRaises) =>
        /\ PostOk
        /\ faces' = faces
        /\ pc' = IF faces = <<>> THEN "show" ELSE "faces"
        /\ attendance_set' = attendance_set
        /\ cap' = "open"
        /\ elapsed' = elapsed
        /\ class_period' = class_period

\* C16: a remote call that is refused or raises leaves the program in the
\* state a successful call leaves it in: the remaining faces of the frame
\* are still to be handled, and the frame loop, its clock, its marked set
\* and the period go on unchanged.
C16_FailureHasNoEffect == [][C16_Step]_vars

\* A second identity is being forwarded in the period of an earlier remote
\* call, which may have failed.
C16_Witness ==
    /\ pc = "post"
    /\ Len(posts) = 2
    /\ posts[1].classPeriod = posts[2].classPeriod
    /\ posts[1].rollNumber # posts[2].rollNumber
    /\ Persisted(posts[2].rollNumber, class_period) = 1


C17_Step ==
    \A i \in 1..Len(known_faces) :
        (AcceptedAs(i) /\ HandlesFace /\ ~AppendFails) =>
            /\ student_names[i] \in attendance_set'
            /\ RowsIn(file_rows', student_names[i], class_period)
                   > RowsIn(file0, student_names[i], class_period)

\* C17: whatever the identities of the gallery, when process_frame has
\* handled a face whose first nearest gallery entry lies below the
\* threshold (and the file could be written), mark_attendance has been
\* called with that entry's identity and the current period: the identity
\* is in the period's marked set and has a row for the period.
C17_AcceptedIsRecorded == [][C17_Step]_vars


\* Every identity of the marked set has a row for the current period, and
\* every request sent was for an identity that had its row.
C18_RowFirst ==
    /\ InActive =>
         \A id \in attendance_set : Persisted(id, class_period) >= 1
    /\ \A k \in 1..Len(posts) :
         Persisted(posts[k].rollNumber, posts[k].classPeriod) >= 1

\* A request is sent only by the step that has written the row and added
\* the identity to the marked set.
C18_PostStep ==
    posts' # posts =>
        /\ RowsIn(file_rows', NextName, class_period)
               = RowsIn(file_rows, NextName, class_period) + 1
        /\ NextName \in attendance_set'
        /\ posts'[Len(posts')].rollNumber = NextName
        /\ posts'[Len(posts')].classPeriod = class_period

\* A failed append adds nothing to the marked set and sends nothing, so
\* the identity is still to be marked in the period.
C18_FailedAppend ==
    AppendFails =>
        /\ UNCHANGED << attendance_set, posts, file_rows >>
        /\ ~AlreadyMarked(NextName, attendance_set')

\* C18: at every point of a run each identity of the current period's
\* marked set has a persisted row for the period, a remote forward is made
\* only with the row written and the identity in the marked set, and a
\* failed append leaves the identity out of the marked set and makes no
\* remote call, so that a later detection tries again.
C18_Ordering == []C18_RowFirst /\ [][C18_PostStep /\ C18_FailedAppend]_vars

\* The second detection of the period, in a later frame than the first
\* (on which the append may have failed), has written the row, joined the
\* marked set and is making the remote call.
C18_Witness ==
    /\ pc = "post"
    /\ detected = 2
    /\ Len(posts) = 1
    /\ Len(entered) = 1
    /\ attendance_set = { posts[1].rollNumber }
    /\ elapsed > 0
    /\ Persisted(posts[1].rollNumber, class_period) = 1


\* C19: the log line "All class periods (1-6) have been completed." is
\* written only by a run that ended in Done, after its six periods; not by
\* a run that was cancelled or that an error ended.
C19_ReportedOnlyWhenDone ==
    reported => (outcome = "Done" /\ Len(entered) = LastPeriod)

====
